---- MODULE Spec2Model ----
(***************************************************************************)
(* The chat front end of unbasa-eats: the request/response chat component  *)
(* (ChatInterface, chat-interface.tsx) and the duplex chat component       *)
(* (WebSocketChat, websocket-chat.tsx) as the home page mounts them, the   *)
(* menu panel and the restaurant search of the home page and the           *)
(* restaurant page, with the server and the network as the                 *)
(* nondeterministic environment.                                           *)
(***************************************************************************)
EXTENDS Integers, Sequences, FiniteSets, TLC

\* ------------------------------------------------------------------ bounds
MaxRequests == 3
\* The longer runs of ChatInterface: more requests, with a single reset.
MaxRequestsDeep == 4
MaxFrames == 2
MaxSockets == 3
MaxMessages == 2 * MaxFrames + 1
MaxMenuFetches == 3
MaxPageFetches == 3
MaxRestaurants == 3
MaxQueryLen == 2

\* ------------------------------------------------------------- data values
NoRestaurant == 0
NoSession == 0
RestaurantIds == {1}
SessionIds == {1, 2}
MaybeRestaurant == {NoRestaurant} \cup RestaurantIds
\* The restaurants of the list and of the routes; the chat components are
\* explored with the first of them.
PageRestaurantIds == RestaurantIds \cup {2}
MaybeSession == {NoSession} \cup SessionIds

\* A string is a sequence of pieces; the empty string is <<>> (falsy in JS).
EmptyString == <<>>
Inputs == {EmptyString, <<" ">>, <<" ", "a", " ">>}
RestaurantName(r) == ToString(r)
DataResponses == {EmptyString, <<"answer">>}
DataErrors == {<<"Traceback">>}

RECURSIVE TrimStart(_)
TrimStart(s) ==
  IF s = <<>> THEN <<>>
  ELSE IF Head(s) = " " THEN TrimStart(Tail(s)) ELSE s

RECURSIVE TrimEnd(_)
TrimEnd(s) ==
  IF s = <<>> THEN <<>>
  ELSE IF s[Len(s)] = " " THEN TrimEnd(SubSeq(s, 1, Len(s) - 1)) ELSE s

Trim_keepsTrailing(s) == TrimStart(s)

\* String.prototype.trim
Trim(s) == TrimEnd(TrimStart(s))

\* ------------------------------------------------------------ fixed texts
RestWelcomeGlobal ==
  <<"Hello! What you want to know about? Just ask me anything about Restaurants given!">>
RestWelcomeReset == <<"Hello! How can I help you with restaurants today?">>
WsWelcomeGlobal == <<"Hello! Let's chat! Just ask me anything about restaurants!">>
WelcomeFor(r) == <<"Hello! Ask me anything about ", RestaurantName(r), "!">>
Apology == <<"Sorry, I encountered an error. Please try again.">>
NotAvailable == <<"WebSocket connection is not available. Please try again later.">>
ReconnectDelayMs == 3000
TickMs == ReconnectDelayMs \div 2

UserMessage(text) == [role |-> "user", content |-> text]
AssistantMessage(text) == [role |-> "assistant", content |-> text]

AppendMessage_prepends(prev, message) == <<message>> \o prev

\* setMessages((prev) => [...prev, message])
AppendMessage(prev, message) == Append(prev, message)

\* ------------------------------------------------------------------ state
VARIABLES
  chatType,           \* which chat component the home page's tabs show
  selectedRestaurant, \* HomePage state, the prop of both chat components
  ci,                 \* ChatInterface state: messages, input, isLoading, sessionId
  requests,           \* every fetch ChatInterface has issued, in order
  inflight,           \* indices of requests whose promise has not settled
  ciLastSid,          \* history: session id of the latest successful response
  ciCounts,           \* history: a reset has happened (0 or 1); selection changes
  ws,                 \* WebSocketChat state and refs
  sockets,            \* every WebSocket created by the component, in order
  timers,             \* pending setTimeout callbacks of onclose
  sent,               \* every frame WebSocketChat has sent, in order
  wsLastSid,          \* history: latest session id received in a frame
  wsLastFrame,        \* history: the frame onmessage handled last
  closes,             \* history: number of close events handled
  scheduled,          \* history: number of reconnect timers ever set
  showMenu,           \* HomePage state: the menu panel replaces the chat
  menuItems,          \* HomePage state: the menu the panel lists
  menuFetches,        \* every menu fetch of handleShowMenu, in order
  page,               \* RestaurantPage state and its route parameter
  pageFetches,        \* every run of fetchRestaurantDetails, in order
  restaurants,        \* HomePage state: the list /api/restaurants returned
  filteredRestaurants, \* HomePage state: the list RestaurantList shows
  searchQuery,        \* HomePage state: the text of the search box
  listFetch           \* the fetch of the mount effect: pending, done or failed

vars == <<chatType, selectedRestaurant, ci, requests, inflight, ciLastSid, ciCounts,
          ws, sockets, timers, sent, wsLastSid, wsLastFrame, closes, scheduled,
          showMenu, menuItems, menuFetches, page, pageFetches,
          restaurants, filteredRestaurants, searchQuery, listFetch>>

ciVars == <<ci, requests, inflight, ciLastSid, ciCounts>>
wsVars == <<ws, sockets, timers, sent, wsLastSid, wsLastFrame, closes, scheduled>>
listVars == <<restaurants, filteredRestaurants, searchQuery, listFetch>>
homeVars == <<showMenu, menuItems, menuFetches, listVars>>
pageVars == <<page, pageFetches>>

\* --------------------------------------------------------- ChatInterface
ChatInterfaceInit(r) ==
  [messages |-> << AssistantMessage(IF r # NoRestaurant THEN WelcomeFor(r)
                                    ELSE RestWelcomeGlobal) >>,
   input |-> EmptyString,
   isLoading |-> FALSE,
   sessionId |-> NoSession]

\* The endpoint and body of the fetch in handleSubmit.
ChatUrl(r) ==
  IF r = NoRestaurant THEN <<"/api/chat">> ELSE <<"/api/chat/", ToString(r)>>

ChatRequest(userMessage, r, sid) ==
  [url |-> ChatUrl(r),
   body |-> [message |-> userMessage, restaurant_id |-> r, session_id |-> sid]]

\* What a fetch can settle with: a rejected promise, or a response with a
\* status and a body that parses or not.
ChatResponses ==
  {[fetched |-> FALSE, ok |-> FALSE, parses |-> FALSE,
    session_id |-> NoSession, response |-> EmptyString]}
  \cup {[fetched |-> TRUE, ok |-> o, parses |-> FALSE,
         session_id |-> NoSession, response |-> EmptyString] : o \in BOOLEAN}
  \cup {[fetched |-> TRUE, ok |-> FALSE, parses |-> TRUE,
         session_id |-> s, response |-> t] :
            s \in MaybeSession, t \in DataResponses}
  \cup {[fetched |-> TRUE, ok |-> TRUE, parses |-> TRUE,
         session_id |-> s, response |-> t] :
            s \in MaybeSession, t \in DataResponses \ {EmptyString}}

\* A request fails by a network error, a non-OK status or an unparsable body.
ChatFails(resp) == ~resp.fetched \/ ~resp.ok \/ ~resp.parses

ChatSucceeds_ignoresStatus(resp) == resp.fetched /\ resp.parses

\* The try block reaches the response.ok branch.
ChatSucceeds(resp) == resp.fetched /\ resp.parses /\ resp.ok

\* onChange of the input, which is disabled while isLoading.
CiSetInput(s) ==
  /\ chatType = "rest"
  /\ ~ci.isLoading
  /\ s # ci.input
  /\ ci' = [ci EXCEPT !.input = s]
  /\ UNCHANGED <<chatType, selectedRestaurant, requests, inflight, ciLastSid, ciCounts>>
  /\ UNCHANGED wsVars
  /\ UNCHANGED <<homeVars, pageVars>>

\* handleSubmit up to the first await: the form can be submitted while the
\* input is enabled.
CiSubmit(limit) ==
  /\ chatType = "rest"
  /\ ~ci.isLoading
  /\ Len(requests) < limit
  /\ IF Trim(ci.input) = EmptyString
     THEN UNCHANGED <<ci, requests, inflight>>
     ELSE LET userMessage == Trim(ci.input) IN
          /\ ci' = [ci EXCEPT !.input = EmptyString,
                              !.messages = AppendMessage(@, UserMessage(userMessage)),
                              !.isLoading = TRUE]
          /\ requests' = Append(requests,
                [req |-> ChatRequest(userMessage, selectedRestaurant, ci.sessionId),
                 lastSid |-> ciLastSid,
                 counts |-> ciCounts,
                 outcome |-> "pending"])
          /\ inflight' = inflight \cup {Len(requests) + 1}
  /\ UNCHANGED <<chatType, selectedRestaurant, ciLastSid, ciCounts>>
  /\ UNCHANGED wsVars
  /\ UNCHANGED <<homeVars, pageVars>>

CiHandleSubmit == CiSubmit(MaxRequests)

\* The session id handleSubmit stores for a successful response; sessionId
\* in the handler is the value of the render that created the handler, the
\* one sent in the request body.
CiNextSessionId(sentSid, resp, current) ==
  IF resp.session_id # NoSession /\ sentSid = NoSession
  THEN resp.session_id ELSE current

Finally_skipped(c) == c

\* The finally block of handleSubmit.
Finally(c) == [c EXCEPT !.isLoading = FALSE]

\* handleSubmit from the settling of the fetch to the end of finally.
CiSettle(i, resp) ==
  /\ chatType = "rest"
  /\ i \in inflight
  /\ inflight' = inflight \ {i}
  /\ IF ChatSucceeds(resp)
     THEN /\ ci' = Finally([ci EXCEPT
                !.sessionId = CiNextSessionId(requests[i].req.body.session_id, resp, @),
                !.messages = AppendMessage(@, AssistantMessage(resp.response))])
          /\ ciLastSid' = IF resp.session_id # NoSession
                          THEN resp.session_id ELSE ciLastSid
     ELSE /\ ci' = Finally([ci EXCEPT
                !.messages = AppendMessage(@, AssistantMessage(Apology))])
          /\ UNCHANGED ciLastSid
  /\ requests' = [requests EXCEPT
                    ![i].outcome = IF ChatFails(resp) THEN "failed" ELSE "answered"]
  /\ UNCHANGED <<chatType, selectedRestaurant, ciCounts>>
  /\ UNCHANGED wsVars
  /\ UNCHANGED <<homeVars, pageVars>>

\* resetConversation; the Reset Chat button is rendered when there is more
\* than the welcome message.
CiResetConversation ==
  /\ chatType = "rest"
  /\ Len(ci.messages) > 1
  /\ ciCounts' = [ciCounts EXCEPT !.resets = 1]
  /\ ci' = [messages |-> << AssistantMessage(
                 IF selectedRestaurant # NoRestaurant
                 THEN WelcomeFor(selectedRestaurant) ELSE RestWelcomeReset) >>,
            input |-> EmptyString,
            sessionId |-> NoSession,
            isLoading |-> FALSE]
  /\ ciLastSid' = NoSession
  /\ UNCHANGED <<chatType, selectedRestaurant, requests, inflight>>
  /\ UNCHANGED wsVars
  /\ UNCHANGED <<homeVars, pageVars>>

\* The "Update welcome message" effect after handleAskInChat selected another
\* restaurant while the chat is shown.
CiSelectRestaurant(r) ==
  /\ chatType = "rest"
  /\ r # selectedRestaurant
  /\ selectedRestaurant' = r
  /\ ci' = [ci EXCEPT !.messages = << AssistantMessage(WelcomeFor(r)) >>]
  /\ ciCounts' = [ciCounts EXCEPT !.selections = @ + 1]
  /\ UNCHANGED <<chatType, requests, inflight, ciLastSid>>
  /\ UNCHANGED wsVars
  /\ UNCHANGED <<homeVars, pageVars>>

NextCi ==
  \/ \E s \in Inputs : CiSetInput(s)
  \/ CiHandleSubmit
  \/ \E i \in 1..MaxRequests, resp \in ChatResponses : CiSettle(i, resp)
  \/ CiResetConversation
  \/ \E r \in RestaurantIds : CiSelectRestaurant(r)

\* ChatInterface over longer runs in which Reset Chat is clicked at most once.
CiFirstReset == ciCounts.resets = 0 /\ CiResetConversation

NextCiDeep ==
  \/ \E s \in Inputs : CiSetInput(s)
  \/ CiSubmit(MaxRequestsDeep)
  \/ \E i \in 1..MaxRequestsDeep, resp \in ChatResponses : CiSettle(i, resp)
  \/ CiFirstReset
  \/ \E r \in RestaurantIds : CiSelectRestaurant(r)

\* --------------------------------------------------------- WebSocketChat
\* closure: the values of the first render that the mount effect's
\* connectWebSocket and its handlers keep (the effect's dependencies are []).
EffectSessionId(current) == NoSession

WebSocketChatInit(r) ==
  [messages |-> << AssistantMessage(IF r # NoRestaurant THEN WelcomeFor(r)
                                    ELSE WsWelcomeGlobal) >>,
   input |-> EmptyString,
   isLoading |-> FALSE,
   sessionId |-> NoSession,
   isConnected |-> FALSE,
   wsRef |-> 0,
   mounted |-> TRUE,
   effectRestaurant |-> r]

WsUrl(r) ==
  IF r = NoRestaurant THEN <<"/api/ws/chat">> ELSE <<"/api/ws/chat/", ToString(r)>>

\* new WebSocket(wsUrl): by and waited record who created it and how long
\* after the close that asked for it, opened whether it has ever been open.
NewSocket(r, by, waited) ==
  [readyState |-> "CONNECTING", url |-> WsUrl(r), awaiting |-> 0,
   by |-> by, waited |-> waited, opened |-> FALSE]

\* What the server can put in one frame: text that does not parse, or an
\* object with the keys in keys (an {error} frame, a {response, session_id}
\* frame, or a response without a session id). A key that is missing has the
\* value the handler's truthiness tests cannot tell from an empty one.
UnparsableFrame ==
  [parses |-> FALSE, keys |-> {}, error |-> EmptyString,
   session_id |-> NoSession, response |-> EmptyString]

WsFrames ==
  {UnparsableFrame}
  \cup {[parses |-> TRUE, keys |-> {"error"}, error |-> e,
         session_id |-> NoSession, response |-> EmptyString] :
            e \in DataErrors \cup {EmptyString}}
  \cup {[parses |-> TRUE, keys |-> {"response", "session_id"}, error |-> EmptyString,
         session_id |-> s, response |-> t] : s \in SessionIds, t \in DataResponses}
  \cup {[parses |-> TRUE, keys |-> {"response"}, error |-> EmptyString,
         session_id |-> NoSession, response |-> t] : t \in DataResponses \ {EmptyString}}

ErrorText(payload) == <<"Error: ">> \o payload

\* The state changes of ws.onopen, ws.onerror and ws.onclose.
OnOpen(w) == [w EXCEPT !.isConnected = TRUE]
OnError(w) == [w EXCEPT !.isConnected = FALSE]

OnClose_forgetsSession(w) ==
  [w EXCEPT !.isConnected = FALSE, !.sessionId = NoSession]

OnClose(w) == [w EXCEPT !.isConnected = FALSE]

\* ws.onopen
WsOnOpen(k) ==
  /\ chatType = "websocket"
  /\ k \in 1..Len(sockets)
  /\ sockets[k].readyState = "CONNECTING"
  /\ sockets' = [sockets EXCEPT ![k].readyState = "OPEN", ![k].opened = TRUE]
  /\ ws' = IF ws.mounted THEN OnOpen(ws) ELSE ws
  /\ UNCHANGED <<timers, sent, wsLastSid, wsLastFrame, closes, scheduled>>
  /\ UNCHANGED <<chatType, selectedRestaurant>>
  /\ UNCHANGED ciVars
  /\ UNCHANGED <<homeVars, pageVars>>

\* The state ws.onmessage leaves for one frame.
OnMessage(w, frame) ==
  IF ~frame.parses THEN w
  ELSE IF frame.error # EmptyString
  THEN [w EXCEPT !.messages = AppendMessage(@, AssistantMessage(ErrorText(frame.error))),
                 !.isLoading = FALSE]
  ELSE LET w1 == IF frame.session_id # NoSession
                    /\ EffectSessionId(w.sessionId) = NoSession
                 THEN [w EXCEPT !.sessionId = frame.session_id] ELSE w
       IN IF frame.response # EmptyString
          THEN [w1 EXCEPT !.messages = AppendMessage(@, AssistantMessage(frame.response)),
                          !.isLoading = FALSE]
          ELSE w1

\* The server answers a frame it was sent on socket k.
WsOnMessage(k, frame) ==
  /\ chatType = "websocket"
  /\ k \in 1..Len(sockets)
  /\ sockets[k].readyState = "OPEN"
  /\ sockets[k].awaiting > 0
  /\ sockets' = [sockets EXCEPT ![k].awaiting = @ - 1]
  /\ ws' = IF ws.mounted THEN OnMessage(ws, frame) ELSE ws
  /\ wsLastSid' = IF frame.parses /\ frame.session_id # NoSession
                  THEN frame.session_id ELSE wsLastSid
  /\ wsLastFrame' = frame
  /\ UNCHANGED <<timers, sent, closes, scheduled>>
  /\ UNCHANGED <<chatType, selectedRestaurant>>
  /\ UNCHANGED ciVars
  /\ UNCHANGED <<homeVars, pageVars>>

ReconnectDelay_onlyFirst(attempts) ==
  IF attempts > 1 THEN 0 ELSE ReconnectDelayMs

\* The delay of the reconnect timer that onclose sets.
ReconnectDelay(attempts) == ReconnectDelayMs

\* ws.onerror sets no timer; ws.onclose sets one.
OnErrorTimers(ts) == ts

OnCloseTimers(ts) ==
  Append(ts, [delay |-> ReconnectDelay(Len(sockets)), elapsed |-> 0])

\* The closing handshake of socket k starts (the server or the network stack
\* begins to close it): readyState is CLOSING until the close event.
WsClosing(k) ==
  /\ chatType = "websocket"
  /\ k \in 1..Len(sockets)
  /\ sockets[k].readyState = "OPEN"
  /\ sockets' = [sockets EXCEPT ![k].readyState = "CLOSING"]
  /\ UNCHANGED <<ws, timers, sent, wsLastSid, wsLastFrame, closes, scheduled>>
  /\ UNCHANGED <<chatType, selectedRestaurant>>
  /\ UNCHANGED ciVars
  /\ UNCHANGED <<homeVars, pageVars>>

\* The connection of socket k ends (a drop, a failed attempt, or the end of
\* a close()): the error event when it failed, then the close event.
WsOnClose(k, failed) ==
  /\ chatType = "websocket"
  /\ k \in 1..Len(sockets)
  /\ sockets[k].readyState # "CLOSED"
  /\ sockets' = [sockets EXCEPT ![k].readyState = "CLOSED", ![k].awaiting = 0]
  /\ ws' = IF ws.mounted
           THEN OnClose(IF failed THEN OnError(ws) ELSE ws) ELSE ws
  /\ timers' = OnCloseTimers(IF failed THEN OnErrorTimers(timers) ELSE timers)
  /\ closes' = closes + 1
  /\ scheduled' = scheduled + Len(timers') - Len(timers)
  /\ UNCHANGED <<sent, wsLastSid, wsLastFrame>>
  /\ UNCHANGED <<chatType, selectedRestaurant>>
  /\ UNCHANGED ciVars
  /\ UNCHANGED <<homeVars, pageVars>>

\* Time passes for the pending timers.
Tick ==
  /\ chatType = "websocket"
  /\ \E t \in 1..Len(timers) : timers[t].elapsed < timers[t].delay
  /\ timers' = [t \in 1..Len(timers) |->
                  [timers[t] EXCEPT !.elapsed =
                     IF @ < timers[t].delay THEN @ + TickMs ELSE @]]
  /\ UNCHANGED <<ws, sockets, sent, wsLastSid, wsLastFrame, closes, scheduled>>
  /\ UNCHANGED <<chatType, selectedRestaurant>>
  /\ UNCHANGED ciVars
  /\ UNCHANGED <<homeVars, pageVars>>

RemoveAt(seq, t) == SubSeq(seq, 1, t - 1) \o SubSeq(seq, t + 1, Len(seq))

\* The guard of the timer callback: reconnect unless wsRef holds an open socket.
ShouldReconnect(readyState) == readyState # "OPEN"

\* The setTimeout callback of onclose.
WsReconnectTimer(t) ==
  /\ chatType = "websocket"
  /\ t \in 1..Len(timers)
  /\ timers[t].elapsed >= timers[t].delay
  /\ timers' = RemoveAt(timers, t)
  /\ IF ShouldReconnect(sockets[ws.wsRef].readyState)
     THEN /\ Len(sockets) < MaxSockets
          /\ sockets' = Append(sockets,
                NewSocket(ws.effectRestaurant, "timer", timers[t].elapsed))
          /\ ws' = [ws EXCEPT !.wsRef = Len(sockets) + 1]
     ELSE UNCHANGED <<sockets, ws>>
  /\ UNCHANGED <<sent, wsLastSid, wsLastFrame, closes, scheduled>>
  /\ UNCHANGED <<chatType, selectedRestaurant>>
  /\ UNCHANGED ciVars
  /\ UNCHANGED <<homeVars, pageVars>>

\* onChange of the input, which is disabled while loading or not connected.
WsSetInput(s) ==
  /\ chatType = "websocket"
  /\ ws.mounted
  /\ ~ws.isLoading /\ ws.isConnected
  /\ s # ws.input
  /\ ws' = [ws EXCEPT !.input = s]
  /\ UNCHANGED <<sockets, timers, sent, wsLastSid, wsLastFrame, closes, scheduled>>
  /\ UNCHANGED <<chatType, selectedRestaurant>>
  /\ UNCHANGED ciVars
  /\ UNCHANGED <<homeVars, pageVars>>

\* The frame handleSubmit sends.
WsFrame(userMessage, r, sid) ==
  [message |-> userMessage, restaurant_id |-> r, session_id |-> sid]

SubmitBlocked_ignoresConnected(w) ==
  Trim(w.input) = EmptyString \/ w.isLoading

\* The early return of handleSubmit.
SubmitBlocked(w) ==
  Trim(w.input) = EmptyString \/ ~w.isConnected \/ w.isLoading

\* handleSubmit
WsHandleSubmit ==
  /\ chatType = "websocket"
  /\ ws.mounted
  /\ Len(ws.messages) < MaxMessages /\ Len(sent) < MaxFrames
  /\ IF SubmitBlocked(ws)
     THEN UNCHANGED <<ws, sockets, sent>>
     ELSE LET userMessage == Trim(ws.input)
              w1 == [ws EXCEPT !.input = EmptyString,
                               !.messages = AppendMessage(@, UserMessage(userMessage)),
                               !.isLoading = TRUE]
          IN IF ws.wsRef # 0 /\ sockets[ws.wsRef].readyState = "OPEN"
             THEN /\ ws' = w1
                  /\ sockets' = [sockets EXCEPT ![ws.wsRef].awaiting = @ + 1]
                  /\ sent' = Append(sent,
                        [socket |-> ws.wsRef,
                         url |-> sockets[ws.wsRef].url,
                         frame |-> WsFrame(userMessage, selectedRestaurant, ws.sessionId),
                         lastSid |-> wsLastSid])
             ELSE /\ ws' = [w1 EXCEPT
                        !.messages = AppendMessage(@, AssistantMessage(NotAvailable)),
                        !.isLoading = FALSE]
                  /\ UNCHANGED <<sockets, sent>>
  /\ UNCHANGED <<timers, wsLastSid, wsLastFrame, closes, scheduled>>
  /\ UNCHANGED <<chatType, selectedRestaurant>>
  /\ UNCHANGED ciVars
  /\ UNCHANGED <<homeVars, pageVars>>

\* The "Update welcome message" effect after handleAskInChat selected another
\* restaurant while the chat is shown.
WsSelectRestaurant(r) ==
  /\ chatType = "websocket"
  /\ ws.mounted
  /\ r # selectedRestaurant
  /\ selectedRestaurant' = r
  /\ ws' = [ws EXCEPT !.messages = << AssistantMessage(WelcomeFor(r)) >>]
  /\ UNCHANGED <<sockets, timers, sent, wsLastSid, wsLastFrame, closes, scheduled>>
  /\ UNCHANGED chatType
  /\ UNCHANGED ciVars
  /\ UNCHANGED <<homeVars, pageVars>>

\* The cleanup of the mount effect, when the component unmounts.
WsUnmount ==
  /\ chatType = "websocket"
  /\ ws.mounted
  /\ ws' = [ws EXCEPT !.mounted = FALSE]
  /\ sockets' = IF ws.wsRef # 0 /\ sockets[ws.wsRef].readyState \in {"CONNECTING", "OPEN"}
                THEN [sockets EXCEPT ![ws.wsRef].readyState = "CLOSING"]
                ELSE sockets
  /\ UNCHANGED <<timers, sent, wsLastSid, wsLastFrame, closes, scheduled>>
  /\ UNCHANGED <<chatType, selectedRestaurant>>
  /\ UNCHANGED ciVars
  /\ UNCHANGED <<homeVars, pageVars>>

NextWs ==
  \/ \E k \in 1..MaxSockets : WsOnOpen(k)
  \/ \E k \in 1..MaxSockets, frame \in WsFrames : WsOnMessage(k, frame)
  \/ \E k \in 1..MaxSockets, failed \in BOOLEAN : WsOnClose(k, failed)
  \/ Tick
  \/ \E t \in 1..MaxSockets : WsReconnectTimer(t)
  \/ \E s \in Inputs : WsSetInput(s)
  \/ WsHandleSubmit
  \/ \E r \in RestaurantIds : WsSelectRestaurant(r)
  \/ WsUnmount

\* WebSocketChat with the CLOSING phase of a connection that the other side
\* ends followed as a step of its own.
NextWsHandshake ==
  \/ NextWs
  \/ \E k \in 1..MaxSockets : WsClosing(k)

\* ------------------------------------------------------------- HomePage
\* The body of /api/restaurant/menu/<id>: the list of the restaurant's items.
MenuOf(r) == << <<"item of ", RestaurantName(r)>> >>

\* What setMenuItems is given: the parsed body, a list or (for an error
\* status) an object; the panel lists menuItems only when its length > 0.
MenuList(items) == [isArray |-> TRUE, items |-> items]
MenuErrorBody == [isArray |-> FALSE, items |-> <<>>]
Displayed(menu) == IF menu.isArray THEN menu.items ELSE <<>>

MenuOutcomes == {"ok", "error status", "throws"}

\* handleShowMenu up to the first await.
HandleShowMenu(r) ==
  /\ Len(menuFetches) < MaxMenuFetches
  /\ selectedRestaurant' = r
  /\ showMenu' = TRUE
  /\ menuFetches' = Append(menuFetches, [restaurant |-> r, outcome |-> "pending"])
  /\ UNCHANGED <<chatType, menuItems>>
  /\ UNCHANGED <<ciVars, wsVars, pageVars, listVars>>

\* handleShowMenu from the settling of its fetch on.
MenuFetchSettles(i, outcome) ==
  /\ i \in 1..Len(menuFetches)
  /\ menuFetches[i].outcome = "pending"
  /\ menuFetches' = [menuFetches EXCEPT ![i].outcome = outcome]
  /\ menuItems' = CASE outcome = "ok" -> MenuList(MenuOf(menuFetches[i].restaurant))
                    [] outcome = "error status" -> MenuErrorBody
                    [] outcome = "throws" -> MenuList(<<>>)
  /\ UNCHANGED <<chatType, selectedRestaurant, showMenu>>
  /\ UNCHANGED <<ciVars, wsVars, pageVars, listVars>>

\* handleAskInChat: the chat tabs replace the menu panel (ChatInterface
\* mounts again) or, when they are shown already, ChatInterface's welcome
\* effect runs for another restaurant.
HandleAskInChat(r) ==
  /\ chatType = "rest"
  /\ selectedRestaurant' = r
  /\ showMenu' = FALSE
  /\ ci' = IF showMenu THEN ChatInterfaceInit(r)
           ELSE IF r # selectedRestaurant
           THEN [ci EXCEPT !.messages = << AssistantMessage(WelcomeFor(r)) >>]
           ELSE ci
  /\ UNCHANGED <<chatType, menuItems, menuFetches>>
  /\ UNCHANGED <<requests, inflight, ciLastSid, ciCounts>>
  /\ UNCHANGED <<wsVars, pageVars, listVars>>

NextHome ==
  \/ \E r \in PageRestaurantIds : HandleShowMenu(r)
  \/ \E i \in 1..MaxMenuFetches, outcome \in MenuOutcomes : MenuFetchSettles(i, outcome)
  \/ \E r \in PageRestaurantIds : HandleAskInChat(r)

\* ------------------------------------------- HomePage, the restaurant list
\* Restaurant of types/restaurant.ts, without its menu; a string is the
\* sequence of its characters.
Restaurant(id) ==
  [id |-> id,
   name |-> CASE id = 1 -> <<"A", "b">> [] id = 2 -> <<"c">> [] OTHER -> <<"a">>,
   location |-> CASE id = 1 -> <<"c">> [] id = 2 -> <<"c", " ", "a">>
                  [] OTHER -> <<"B">>]

Catalog == {Restaurant(id) : id \in 1..3}

\* The bodies /api/restaurants can answer with: lists of distinct restaurants.
RestaurantLists ==
  {l \in UNION {[1..n -> Catalog] : n \in 0..MaxRestaurants} :
     \A i, j \in 1..Len(l) : i # j => l[i].id # l[j].id}

\* What can be typed into the search box.
QueryChars == {"a", "b", "B", " "}
Queries == UNION {[1..n -> QueryChars] : n \in 0..MaxQueryLen}

\* String.prototype.toLowerCase
LowerOf(c) == CASE c = "A" -> "a" [] c = "B" -> "b" [] OTHER -> c
ToLowerCase_identity(s) == s
ToLowerCase(s) == [i \in 1..Len(s) |-> LowerOf(s[i])]

\* String.prototype.includes
Includes(text, part) ==
  \E i \in 0..(Len(text) - Len(part)) : SubSeq(text, i + 1, i + Len(part)) = part

\* The body of the filter effect: what it hands to setFilteredRestaurants.
FilterRestaurants(list, query) ==
  IF Trim(query) = EmptyString
  THEN list
  ELSE SelectSeq(list, LAMBDA restaurant :
         \/ Includes(ToLowerCase(restaurant.name), ToLowerCase(query))
         \/ Includes(ToLowerCase(restaurant.location), ToLowerCase(query)))

\* The search box's onChange, and the filter effect the change of
\* searchQuery makes run after the render.
SetSearchQuery(q) ==
  /\ q # searchQuery
  /\ searchQuery' = q
  /\ filteredRestaurants' = FilterRestaurants(restaurants, q)
  /\ UNCHANGED <<restaurants, listFetch>>
  /\ UNCHANGED <<chatType, selectedRestaurant, showMenu, menuItems, menuFetches>>
  /\ UNCHANGED <<ciVars, wsVars, pageVars>>

\* fetchRestaurants from the settling of its fetch on: both lists are set to
\* the body, and the filter effect runs for the change of restaurants.
FetchRestaurantsSettles(data) ==
  /\ listFetch = "pending"
  /\ listFetch' = "done"
  /\ restaurants' = data
  /\ filteredRestaurants' = FilterRestaurants(data, searchQuery)
  /\ UNCHANGED searchQuery
  /\ UNCHANGED <<chatType, selectedRestaurant, showMenu, menuItems, menuFetches>>
  /\ UNCHANGED <<ciVars, wsVars, pageVars>>

\* fetchRestaurants when fetch or response.json() throws: the catch logs.
FetchRestaurantsThrows ==
  /\ listFetch = "pending"
  /\ listFetch' = "failed"
  /\ UNCHANGED <<restaurants, filteredRestaurants, searchQuery>>
  /\ UNCHANGED <<chatType, selectedRestaurant, showMenu, menuItems, menuFetches>>
  /\ UNCHANGED <<ciVars, wsVars, pageVars>>

NextFilter ==
  \/ \E q \in Queries : SetSearchQuery(q)
  \/ \E data \in RestaurantLists : FetchRestaurantsSettles(data)
  \/ FetchRestaurantsThrows

\* ------------------------------------------------------- RestaurantPage
NoError == EmptyString

NotFoundText == <<"Restaurant not found">>
\* err.message of a rejected fetch or of a body that does not parse.
ThrownMessage == <<"Failed to fetch">>
PageOutcomes == {"ok", "error status", "throws"}

\* The useState initial values of RestaurantPage for the route parameter id.
RestaurantPageInit(id) ==
  [id |-> id, restaurant |-> NoRestaurant, menuItems |-> MenuList(<<>>),
   loading |-> TRUE, error |-> NoError]

\* One run of fetchRestaurantDetails up to its first await.
PageFetch(id) == [id |-> id, details |-> "pending", menu |-> "not started"]

\* The route parameter changes while the page stays mounted: the effect on
\* [id] runs fetchRestaurantDetails for the new id.
PageNavigate(id) ==
  /\ page.id # NoRestaurant
  /\ id # page.id
  /\ Len(pageFetches) < MaxPageFetches
  /\ page' = [page EXCEPT !.id = id, !.loading = TRUE]
  /\ pageFetches' = Append(pageFetches, PageFetch(id))
  /\ UNCHANGED <<chatType, selectedRestaurant>>
  /\ UNCHANGED <<ciVars, wsVars, homeVars>>

\* fetchRestaurantDetails from the settling of the details fetch to the
\* second await, or through catch and finally.
PageDetailsSettle(i, outcome) ==
  /\ i \in 1..Len(pageFetches)
  /\ pageFetches[i].details = "pending"
  /\ IF outcome = "ok"
     THEN /\ page' = [page EXCEPT !.restaurant = pageFetches[i].id]
          /\ pageFetches' = [pageFetches EXCEPT ![i].details = "ok",
                                                ![i].menu = "pending"]
     ELSE /\ page' = [page EXCEPT
                !.error = IF outcome = "error status" THEN NotFoundText
                          ELSE ThrownMessage,
                !.loading = FALSE]
          /\ pageFetches' = [pageFetches EXCEPT ![i].details = outcome]
  /\ UNCHANGED <<chatType, selectedRestaurant>>
  /\ UNCHANGED <<ciVars, wsVars, homeVars>>

\* fetchRestaurantDetails from the settling of the menu fetch to the end of
\* finally.
PageMenuSettle(i, outcome) ==
  /\ i \in 1..Len(pageFetches)
  /\ pageFetches[i].menu = "pending"
  /\ page' = CASE outcome = "ok" ->
                  [page EXCEPT !.menuItems = MenuList(MenuOf(pageFetches[i].id)),
                               !.loading = FALSE]
             [] outcome = "error status" ->
                  [page EXCEPT !.menuItems = MenuErrorBody, !.loading = FALSE]
             [] outcome = "throws" ->
                  [page EXCEPT !.error = ThrownMessage, !.loading = FALSE]
  /\ pageFetches' = [pageFetches EXCEPT ![i].menu = outcome]
  /\ UNCHANGED <<chatType, selectedRestaurant>>
  /\ UNCHANGED <<ciVars, wsVars, homeVars>>

NextPage ==
  \/ \E id \in PageRestaurantIds : PageNavigate(id)
  \/ \E i \in 1..MaxPageFetches, outcome \in PageOutcomes : PageDetailsSettle(i, outcome)
  \/ \E i \in 1..MaxPageFetches, outcome \in PageOutcomes : PageMenuSettle(i, outcome)

\* ------------------------------------------------------- specification
\* The menu panel of the home page before any Show Menu click.
HomeMenuInit ==
  /\ showMenu = FALSE
  /\ menuItems = MenuList(<<>>)
  /\ menuFetches = <<>>

PageNotMounted ==
  /\ page = RestaurantPageInit(NoRestaurant)
  /\ pageFetches = <<>>

\* The restaurant list of the home page at its first render, the fetch of
\* the mount effect under way.
HomeListInit ==
  /\ restaurants = <<>>
  /\ filteredRestaurants = <<>>
  /\ searchQuery = EmptyString
  /\ listFetch = "pending"

\* The restaurant list once the fetch has answered and nothing was typed.
HomeListLoaded ==
  /\ restaurants = << Restaurant(1), Restaurant(2) >>
  /\ filteredRestaurants = restaurants
  /\ searchQuery = EmptyString
  /\ listFetch = "done"

\* The page after the first render and mount effects of the chat component
\* its tabs show; WebSocketChat's mount effect has called connectWebSocket.
Init ==
  /\ chatType \in {"rest", "websocket"}
  /\ selectedRestaurant \in MaybeRestaurant
  /\ ci = ChatInterfaceInit(selectedRestaurant)
  /\ requests = <<>>
  /\ inflight = {}
  /\ ciLastSid = NoSession
  /\ ciCounts = [resets |-> 0, selections |-> 0]
  /\ ws = [WebSocketChatInit(selectedRestaurant) EXCEPT
             !.wsRef = IF chatType = "websocket" THEN 1 ELSE 0]
  /\ sockets = IF chatType = "websocket"
               THEN << NewSocket(selectedRestaurant, "mount", 0) >> ELSE <<>>
  /\ timers = <<>>
  /\ sent = <<>>
  /\ wsLastSid = NoSession
  /\ wsLastFrame = UnparsableFrame
  /\ closes = 0
  /\ scheduled = 0
  /\ HomeMenuInit
  /\ PageNotMounted
  /\ HomeListLoaded

Next == NextCi \/ NextWs

Spec == Init /\ [][Next]_vars

\* Each chat component on its own.
InitCi == Init /\ chatType = "rest"
InitWs == Init /\ chatType = "websocket"
SpecCi == InitCi /\ [][NextCi]_vars
SpecWs == InitWs /\ [][NextWs]_vars
SpecCiDeep == InitCi /\ [][NextCiDeep]_vars
SpecWsHandshake == InitWs /\ [][NextWsHandshake]_vars

\* The home page after its first render: nothing selected, the chat shown.
InitHome == InitCi /\ selectedRestaurant = NoRestaurant
SpecHome == InitHome /\ [][NextHome]_vars

\* The restaurant page after its first render and the first run of its
\* effect; the home page and its chat are not mounted, and the ChatInterface
\* the page embeds is not followed.
InitPage ==
  /\ chatType = "rest"
  /\ selectedRestaurant = NoRestaurant
  /\ ci = ChatInterfaceInit(NoRestaurant)
  /\ requests = <<>>
  /\ inflight = {}
  /\ ciLastSid = NoSession
  /\ ciCounts = [resets |-> 0, selections |-> 0]
  /\ ws = WebSocketChatInit(NoRestaurant)
  /\ sockets = <<>>
  /\ timers = <<>>
  /\ sent = <<>>
  /\ wsLastSid = NoSession
  /\ wsLastFrame = UnparsableFrame
  /\ closes = 0
  /\ scheduled = 0
  /\ HomeMenuInit
  /\ HomeListInit
  /\ \E id \in PageRestaurantIds :
       /\ page = RestaurantPageInit(id)
       /\ pageFetches = << PageFetch(id) >>

SpecPage == InitPage /\ [][NextPage]_vars

\* The home page after its first render and mount effects: the chat shown,
\* nothing selected, the restaurant list asked for.
InitFilter ==
  /\ chatType = "rest"
  /\ selectedRestaurant = NoRestaurant
  /\ ci = ChatInterfaceInit(NoRestaurant)
  /\ requests = <<>>
  /\ inflight = {}
  /\ ciLastSid = NoSession
  /\ ciCounts = [resets |-> 0, selections |-> 0]
  /\ ws = WebSocketChatInit(NoRestaurant)
  /\ sockets = <<>>
  /\ timers = <<>>
  /\ sent = <<>>
  /\ wsLastSid = NoSession
  /\ wsLastFrame = UnparsableFrame
  /\ closes = 0
  /\ scheduled = 0
  /\ HomeMenuInit
  /\ PageNotMounted
  /\ HomeListInit

SpecFilter == InitFilter /\ [][NextFilter]_vars

\* WebSocketChat where React has run the mount effect, its cleanup and the
\* effect again on the first mount (StrictMode in development): the first
\* socket has been asked to close and wsRef holds a second one.
InitStrict ==
  /\ chatType = "websocket"
  /\ selectedRestaurant \in MaybeRestaurant
  /\ ci = ChatInterfaceInit(selectedRestaurant)
  /\ requests = <<>>
  /\ inflight = {}
  /\ ciLastSid = NoSession
  /\ ciCounts = [resets |-> 0, selections |-> 0]
  /\ ws = [WebSocketChatInit(selectedRestaurant) EXCEPT !.wsRef = 2]
  /\ sockets = << [NewSocket(selectedRestaurant, "mount", 0)
                     EXCEPT !.readyState = "CLOSING"],
                  NewSocket(selectedRestaurant, "mount", 0) >>
  /\ timers = <<>>
  /\ sent = <<>>
  /\ wsLastSid = NoSession
  /\ wsLastFrame = UnparsableFrame
  /\ closes = 0
  /\ scheduled = 0
  /\ HomeMenuInit
  /\ PageNotMounted
  /\ HomeListLoaded

SpecStrict == InitStrict /\ [][NextWs]_vars

TypeOK ==
  /\ chatType \in {"rest", "websocket"}
  /\ selectedRestaurant \in {NoRestaurant} \cup PageRestaurantIds
  /\ ci.sessionId \in MaybeSession /\ ws.sessionId \in MaybeSession
  /\ ci.isLoading \in BOOLEAN /\ ws.isLoading \in BOOLEAN
  /\ Len(requests) <= MaxRequestsDeep /\ Len(sockets) <= MaxSockets
  /\ inflight \subseteq 1..Len(requests)

\* =================================================================== claims
SentOnReconnect(i) == sockets[sent[i].socket].by = "timer"

\* C1: every frame WebSocketChat sends on a reconnected socket carries as
\* session_id the session id most recently received from the server, which
\* closing and reconnecting have left in the sessionId state.
C1_ReconnectResendsSessionId ==
  \A i \in 1..Len(sent) :
    SentOnReconnect(i) => sent[i].frame.session_id = sent[i].lastSid

C1_Witness ==
  \E i \in 1..Len(sent) :
    SentOnReconnect(i) /\ sent[i].frame.session_id # NoSession

\* C2: once a reconnected socket is open and connected and nothing has been
\* sent on it yet, WebSocketChat is not loading, so that handleSubmit with
\* non-blank input sends a frame on it.
C2_CanSendAfterReconnect ==
  \A k \in 1..Len(sockets) :
    ( /\ ws.mounted /\ ws.wsRef = k /\ ws.isConnected
      /\ sockets[k].by = "timer" /\ sockets[k].readyState = "OPEN"
      /\ \A i \in 1..Len(sent) : sent[i].socket # k )
    => ~ws.isLoading

\* C3: every request of ChatInterface carries the session id of the most
\* recent successful response of the conversation, and null before any.
C3_RequestsEchoLatestSessionId ==
  \A i \in 1..Len(requests) :
    requests[i].req.body.session_id = requests[i].lastSid

\* C4: any two requests, and any two frames, that carry the same non-null
\* session_id carry the same restaurant_id.
C4_SessionScopeFixed ==
  /\ \A i, j \in 1..Len(requests) :
       ( /\ requests[i].req.body.session_id # NoSession
         /\ requests[i].req.body.session_id = requests[j].req.body.session_id )
       => requests[i].req.body.restaurant_id = requests[j].req.body.restaurant_id
  /\ \A i, j \in 1..Len(sent) :
       ( /\ sent[i].frame.session_id # NoSession
         /\ sent[i].frame.session_id = sent[j].frame.session_id )
       => sent[i].frame.restaurant_id = sent[j].frame.restaurant_id

C6_ReconnectOnlyAfterFixedDelay ==
  /\ \A k \in 1..Len(sockets) :
       IF k = 1 THEN sockets[k].by = "mount"
       ELSE sockets[k].by = "timer" /\ sockets[k].waited >= ReconnectDelayMs
  /\ scheduled = closes
  /\ \A t \in 1..Len(timers) : timers[t].delay = ReconnectDelayMs

C6_Witness ==
  /\ Len(sockets) >= 3
  /\ \A k \in 1..2 : sockets[k].readyState = "CLOSED" /\ ~sockets[k].opened

\* C7: the reconnect attempts after a drop are capped: once RetryCap
\* attempts have failed, no further reconnect is scheduled. RetryCap is the
\* largest number of reconnect attempts the model holds.
RetryCap == MaxSockets - 1

FailedAttempts ==
  {k \in 1..Len(sockets) :
     sockets[k].by = "timer" /\ sockets[k].readyState = "CLOSED" /\ ~sockets[k].opened}

C7_ReconnectsCapped ==
  (ws.mounted /\ Cardinality(FailedAttempts) >= RetryCap) => timers = <<>>

Last(seq) == seq[Len(seq)]

\* C8: when a request of ChatInterface fails, the step that settles it
\* leaves sessionId unchanged, appends exactly the apology message and sets
\* isLoading to false.
C8_FailureKeepsSession ==
  [][ \A i \in inflight \ inflight' :
        requests'[i].outcome = "failed" =>
          /\ ci'.sessionId = ci.sessionId
          /\ ci'.messages = Append(ci.messages, AssistantMessage(Apology))
          /\ ci'.isLoading = FALSE ]_vars

C8_Witness ==
  /\ \E i \in 1..Len(requests) : requests[i].outcome = "failed"
  /\ ci.sessionId # NoSession
  /\ Last(ci.messages) = AssistantMessage(Apology)
  /\ ~ci.isLoading

\* C9: no displayed message of either component contains text of a server
\* error payload.
Pieces(text) == {text[n] : n \in 1..Len(text)}

ShowsServerError(message) ==
  \E e \in DataErrors : Pieces(message.content) \cap Pieces(e) # {}

C9_OnlyFixedFailureTexts ==
  /\ \A n \in 1..Len(ci.messages) : ~ShowsServerError(ci.messages[n])
  /\ \A n \in 1..Len(ws.messages) : ~ShowsServerError(ws.messages[n])

\* C10: every step of either component leaves its message list unchanged,
\* appends exactly one message to it, or is a reset (resetConversation or a
\* change of the selected restaurant) that leaves one welcome message.
AppendsOne(old, new) ==
  Len(new) = Len(old) + 1 /\ SubSeq(new, 1, Len(old)) = old

IsWelcome(message) ==
  /\ message.role = "assistant"
  /\ message.content \in {RestWelcomeGlobal, RestWelcomeReset, WsWelcomeGlobal}
                          \cup {WelcomeFor(r) : r \in RestaurantIds}

SpacesOnly(s) == \A i \in 1..Len(s) : s[i] = " "

IsTrimOf(m, s) ==
  /\ m # <<>>
  /\ m[1] # " "
  /\ m[Len(m)] # " "
  /\ \E a \in 0..Len(s) :
       /\ a + Len(m) <= Len(s)
       /\ SubSeq(s, a + 1, a + Len(m)) = m
       /\ SpacesOnly(SubSeq(s, 1, a))
       /\ SpacesOnly(SubSeq(s, a + Len(m) + 1, Len(s)))

CiAppendsUserMessage ==
  /\ Len(ci'.messages) > Len(ci.messages)
  /\ ci'.messages[Len(ci'.messages)].role = "user"

C11_RequestShape ==
  [][ /\ Len(requests') > Len(requests) =>
           LET new == requests'[Len(requests')].req IN
           /\ Len(requests') = Len(requests) + 1
           /\ DOMAIN new.body = {"message", "restaurant_id", "session_id"}
           /\ IsTrimOf(new.body.message, ci.input)
           /\ new.body.restaurant_id = selectedRestaurant
           /\ new.body.session_id = ci.sessionId
           /\ new.url = IF selectedRestaurant = NoRestaurant
                        THEN <<"/api/chat">>
                        ELSE <<"/api/chat/", ToString(selectedRestaurant)>>
      /\ SpacesOnly(ci.input) =>
           /\ Len(requests') = Len(requests)
           /\ inflight' \subseteq inflight
           /\ ~CiAppendsUserMessage ]_vars

\* A request with a stored session id was sent for a selected restaurant,
\* and one for no restaurant: only the non-blank input can have sent them.
C11_Witness ==
  \E i \in 1..Len(requests) :
    /\ requests[i].req.body.session_id # NoSession
    /\ requests[i].req.body.message = <<"a">>
    /\ requests[i].req.url # <<"/api/chat">>

\* C12: for every frame WebSocketChat receives that has one of the two
\* protocol forms, exactly one assistant message is appended and isLoading
\* becomes false: a {response, session_id} frame appends the response text
\* and stores the session id, an {error} frame appends one error message
\* and leaves sessionId unchanged.
IsProtocolFrame(frame) ==
  frame.parses /\ frame.keys \in {{"error"}, {"response", "session_id"}}

WsReceives ==
  \E k \in 1..Len(sockets) :
    /\ sockets[k].readyState = "OPEN" /\ sockets'[k].readyState = "OPEN"
    /\ sockets'[k].awaiting < sockets[k].awaiting

C12_ProtocolFrameAnswered ==
  [][ (WsReceives /\ ws.mounted /\ IsProtocolFrame(wsLastFrame')) =>
        LET frame == wsLastFrame'
            n == Len(ws.messages) IN
        /\ Len(ws'.messages) = n + 1
        /\ SubSeq(ws'.messages, 1, n) = ws.messages
        /\ ws'.messages[n + 1].role = "assistant"
        /\ ~ws'.isLoading
        /\ frame.keys = {"response", "session_id"} =>
             /\ ws'.messages[n + 1].content = frame.response
             /\ ws'.sessionId = frame.session_id
        /\ frame.keys = {"error"} => ws'.sessionId = ws.sessionId ]_vars

\* C13: at every moment the restaurant scope of the connection WebSocketChat
\* uses (the URL its socket was opened with, reconnects included) is the
\* currently selected restaurant, and every frame sent carries the
\* restaurant_id of the endpoint it is sent to.
ScopeUrl(r) ==
  IF r = NoRestaurant THEN <<"/api/ws/chat">> ELSE <<"/api/ws/chat/", ToString(r)>>

C13_ConnectionScopeIsSelection ==
  /\ (ws.mounted /\ ws.wsRef # 0) =>
        sockets[ws.wsRef].url = ScopeUrl(selectedRestaurant)
  /\ \A i \in 1..Len(sent) : sent[i].url = ScopeUrl(sent[i].frame.restaurant_id)

\* C14: ChatInterface never has two chat requests that carry the same
\* non-null session_id in flight at the same time.
C14_OneInFlightPerSession ==
  \A i \in inflight, j \in inflight :
    (i # j /\ requests[i].req.body.session_id # NoSession) =>
      requests[i].req.body.session_id # requests[j].req.body.session_id

\* C15: after resetConversation the conversation is isolated from the
\* requests sent before it: the first request after the reset carries
\* session_id null, and the settling of a request sent before the reset
\* appends nothing to the message list, leaves sessionId alone and leaves
\* isLoading alone.
SentBeforeReset(i) == requests[i].counts.resets < ciCounts.resets

C15_ResetIsolates ==
  [][ /\ \A i \in inflight \ inflight' :
           SentBeforeReset(i) =>
             /\ ci'.messages = ci.messages
             /\ ci'.sessionId = ci.sessionId
             /\ ci'.isLoading = ci.isLoading
      /\ ( /\ Len(requests') > Len(requests)
           /\ ciCounts.resets > 0
           /\ \A j \in 1..Len(requests) : SentBeforeReset(j) )
         => requests'[Len(requests')].req.body.session_id = NoSession ]_vars

\* C16: after WebSocketChat has unmounted (its cleanup closed the socket) the
\* component creates no new WebSocket: no reconnect timer started by the
\* close of the cleanup opens another connection.
C16_NoSocketAfterUnmount ==
  [][ ~ws.mounted => Len(sockets') = Len(sockets) ]_vars

\* C17: in ChatInterface every settling of a fetch appends exactly one
\* assistant message, the server's response when the request succeeded and
\* the apology otherwise, and isLoading is false whenever every fetch has
\* settled; as long as no reset and no selection change has happened, the
\* list is the welcome message followed by the user messages of the requests
\* in order, each followed by its one assistant message once it has settled.
Settled(i) == requests[i].outcome # "pending"

NoReplacement == ciCounts.resets = 0 /\ ciCounts.selections = 0

Alternates ==
  /\ Len(ci.messages) >= 1 /\ ci.messages[1].role = "assistant"
  /\ \A k \in 1..Len(requests) :
       /\ Len(ci.messages) >= 2 * k
       /\ ci.messages[2 * k] = [role |-> "user", content |-> requests[k].req.body.message]
       /\ Settled(k) <=> Len(ci.messages) >= 2 * k + 1
       /\ Settled(k) => ci.messages[2 * k + 1].role = "assistant"
  /\ Len(ci.messages) <= 2 * Len(requests) + 1

C17_OneAnswerPerMessage ==
  [][ /\ \A i \in inflight \ inflight' :
           /\ Len(ci'.messages) = Len(ci.messages) + 1
           /\ SubSeq(ci'.messages, 1, Len(ci.messages)) = ci.messages
           /\ ci'.messages[Len(ci'.messages)].role = "assistant"
           /\ requests'[i].outcome = "answered" =>
                ci'.messages[Len(ci'.messages)].content \in DataResponses \ {Apology}
           /\ requests'[i].outcome = "failed" =>
                ci'.messages[Len(ci'.messages)].content = Apology
      /\ (inflight' = {}) => ~ci'.isLoading
      /\ NoReplacement' => Alternates' ]_vars

\* Two requests have settled without a reset or a selection change, one
\* answered and one failed, and the form is enabled again.
C17_Witness ==
  /\ NoReplacement
  /\ inflight = {}
  /\ ~ci.isLoading
  /\ \E i, j \in 1..Len(requests) :
       requests[i].outcome = "answered" /\ requests[j].outcome = "failed"
  /\ Len(ci.messages) = 2 * Len(requests) + 1

\* C18: WebSocketChat sends a frame only when no reply to an earlier frame is
\* pending and only on an OPEN socket: handleSubmit neither sends nor
\* appends when the input is blank, isConnected is false or isLoading is
\* true, and when it passes that guard while the socket in wsRef is not OPEN
\* it sends nothing, appends the 'not available' notice after the user
\* message and sets isLoading back to false.
WsSends == Len(sent') > Len(sent)

WsAppendsUserMessage ==
  /\ Len(ws'.messages) > Len(ws.messages)
  /\ ws'.messages[Len(ws.messages) + 1].role = "user"

WsRefOpen == ws.wsRef # 0 /\ sockets[ws.wsRef].readyState = "OPEN"

C18_SendsOnlyWhenIdleAndOpen ==
  [][ /\ WsSends =>
           /\ ~ws.isLoading /\ ws.isConnected /\ ~SpacesOnly(ws.input)
           /\ WsRefOpen
           /\ sent'[Len(sent')].socket = ws.wsRef
           /\ \A k \in 1..Len(sockets) : sockets[k].awaiting = 0
           /\ ws'.isLoading
      /\ (SpacesOnly(ws.input) \/ ~ws.isConnected \/ ws.isLoading) =>
           ~WsSends /\ ~WsAppendsUserMessage
      /\ (WsAppendsUserMessage /\ ~WsRefOpen) =>
           /\ ~WsSends
           /\ Len(ws'.messages) = Len(ws.messages) + 2
           /\ SubSeq(ws'.messages, 1, Len(ws.messages)) = ws.messages
           /\ IsTrimOf(ws'.messages[Len(ws.messages) + 1].content, ws.input)
           /\ ws'.messages[Len(ws.messages) + 2] =
                [role |-> "assistant",
                 content |-> <<"WebSocket connection is not available. Please try again later.">>]
           /\ ~ws'.isLoading ]_vars

\* A frame has been sent on an OPEN socket and, in the same run, a submit
\* that passed the guard found the socket in wsRef not OPEN.
C18_Witness ==
  /\ Len(sent) >= 1
  /\ \E n \in 2..Len(ws.messages) :
       /\ ws.messages[n].content =
            <<"WebSocket connection is not available. Please try again later.">>
       /\ ws.messages[n - 1].role = "user"

\* C19: on the home page, whenever the menu panel is shown and no menu fetch
\* is pending, the menu items displayed are those returned for the currently
\* selected restaurant, or none (as after a failed fetch).
NoMenuFetchPending ==
  \A i \in 1..Len(menuFetches) : menuFetches[i].outcome # "pending"

C19_MenuOfSelectedRestaurant ==
  (showMenu /\ selectedRestaurant # NoRestaurant /\ NoMenuFetchPending) =>
    \/ Displayed(menuItems) = << <<"item of ", ToString(selectedRestaurant)>> >>
    \/ Displayed(menuItems) = <<>>

\* C20: on the restaurant page, once every fetch started for a route id has
\* settled, loading is false and, if the fetches for the current id
\* succeeded, the page shows that restaurant and its menu with error null,
\* whatever fetches for earlier ids did.
AllPageFetchesSettled ==
  \A i \in 1..Len(pageFetches) :
    pageFetches[i].details # "pending" /\ pageFetches[i].menu # "pending"

CurrentFetchSucceeded ==
  LET f == pageFetches[Len(pageFetches)] IN
  f.id = page.id /\ f.details = "ok" /\ f.menu = "ok"

C20_PageReflectsCurrentId ==
  (Len(pageFetches) >= 1 /\ AllPageFetchesSettled) =>
    /\ ~page.loading
    /\ CurrentFetchSucceeded =>
         /\ page.restaurant = page.id
         /\ Displayed(page.menuItems) = << <<"item of ", ToString(page.id)>> >>
         /\ page.error = <<>>

\* C21: while WebSocketChat is mounted, isConnected is true only while the
\* socket held in wsRef is OPEN, so no submit is handled with isConnected
\* true and that socket closing, closed or still connecting.
C21_ConnectedOnlyWhileOpen ==
  (ws.mounted /\ ws.isConnected) =>
    (ws.wsRef # 0 /\ sockets[ws.wsRef].readyState = "OPEN")

\* C22: on the home page, once the filter effect has run, filteredRestaurants
\* is the whole of restaurants when the search query is empty or only
\* whitespace, and otherwise the restaurants whose name or location contains
\* the query, letters compared without regard to case, in the order they have
\* in restaurants.
SameLetter(a, b) == a = b \/ {a, b} = {"a", "A"} \/ {a, b} = {"b", "B"}

ContainsIgnoringCase(text, part) ==
  \E i \in 0..(Len(text) - Len(part)) :
    \A j \in 1..Len(part) : SameLetter(text[i + j], part[j])

MatchesQuery(restaurant, query) ==
  \/ ContainsIgnoringCase(restaurant.name, query)
  \/ ContainsIgnoringCase(restaurant.location, query)

C22_FilteredIsMatchingSubList ==
  IF SpacesOnly(searchQuery)
  THEN filteredRestaurants = restaurants
  ELSE \E f \in [1..Len(filteredRestaurants) -> 1..Len(restaurants)] :
         /\ \A k \in 1..Len(filteredRestaurants) :
              filteredRestaurants[k] = restaurants[f[k]]
         /\ \A k, l \in 1..Len(filteredRestaurants) : k < l => f[k] < f[l]
         /\ {f[k] : k \in 1..Len(filteredRestaurants)} =
              {n \in 1..Len(restaurants) : MatchesQuery(restaurants[n], searchQuery)}

C22_Witness ==
  /\ listFetch = "done"
  /\ Len(restaurants) = 3
  /\ Len(filteredRestaurants) = 2
  /\ filteredRestaurants[1] = restaurants[1]
  /\ filteredRestaurants[2] = restaurants[3]
  /\ \E i \in 1..Len(searchQuery) : searchQuery[i] = "B"
  /\ \E n \in {1, 3} : ~Includes(restaurants[n].name, searchQuery)
                       /\ ~Includes(restaurants[n].location, searchQuery)

====
